---------------------------- MODULE Spec2Model ----------------------------
(***************************************************************************)
(* Model of stactools.goes.dataset: DatasetGeometry.from_nc and            *)
(* Dataset.from_nc, the derivation of the projection and geometry metadata *)
(* of a GOES ABI L2 netCDF file.                                           *)
(*                                                                         *)
(* Numbers.  The values the code computes with are Python floats.  They    *)
(* are modelled as exact rationals <<n, d>> (d > 0, lowest terms), so      *)
(* every arithmetic operation of the code is carried out, without IEEE     *)
(* rounding.  The stored coordinates of the x and y axes are the raw       *)
(* integers of the file.                                                   *)
(*                                                                         *)
(* Third-party calls.  shapely's box and Polygon/mapping are modelled by   *)
(* the coordinate rings they produce.  pyproj's CRS and stactools.core's   *)
(* reproject_geom are modelled symbolically: a CRS is the record of the    *)
(* parameters it is built from, and a reprojected point is the term        *)
(* [src, dst, point], which is equal to no plain point.                    *)
(***************************************************************************)
EXTENDS Integers, Sequences, FiniteSets, TLC

VARIABLES
    nc,             \* the opened netCDF file (h5py.File)
    file_name,      \* the ABIL2FileName handed to Dataset.from_nc
    pc,             \* "start", "returned" or "raised"
    called,         \* which classmethod was called
    image_type,     \* the image_type argument DatasetGeometry.from_nc got
    geometry,       \* the DatasetGeometry returned
    dataset,        \* the Dataset returned
    error,          \* the exception raised
    reproject_calls \* the arguments of every call of reproject_geom

vars == <<nc, file_name, pc, called, image_type, geometry, dataset, error,
          reproject_calls>>

None == [none |-> TRUE]

-----------------------------------------------------------------------------
(* Exact rational arithmetic, standing for the float arithmetic of the code *)

Abs(n) == IF n < 0 THEN -n ELSE n

RECURSIVE GCD(_, _)
GCD(a, b) == IF b = 0 THEN a ELSE GCD(b, a % b)

Rat(n, d) ==
    LET s == IF d < 0 THEN -1 ELSE 1
        g == GCD(Abs(n), Abs(d))
    IN  <<(s * n) \div g, (s * d) \div g>>

R(n) == <<n, 1>>
RAdd(a, b) == Rat(a[1] * b[2] + b[1] * a[2], a[2] * b[2])
RSub(a, b) == Rat(a[1] * b[2] - b[1] * a[2], a[2] * b[2])
RMul(a, b) == Rat(a[1] * b[1], a[2] * b[2])
RDiv(a, b) == Rat(a[1] * b[2], a[2] * b[1])
RLe(a, b) == a[1] * b[2] <= b[1] * a[2]

-----------------------------------------------------------------------------
(* Bounds and input sets *)

MaxLen == 3

CoordValues == {0, 1}

AxisValues == UNION {[1..n -> CoordValues] : n \in 0..MaxLen}

ImageTypes == {"FULL_DISK", "CONUS", "MESOSCALE"}

\* [x_scale, x_offset, y_scale, y_offset, perspective_point_height,
\*  longitude_of_projection_origin]
ProjectionParams ==
    { [xs |-> <<1, 2>>, xo |-> R(-1), ys |-> <<-1, 2>>, yo |-> R(1),
       h |-> R(3), lon |-> R(-75)],
      [xs |-> R(-1), xo |-> R(0), ys |-> R(1), yo |-> R(0),
       h |-> R(1), lon |-> R(-137)],
      [xs |-> R(2), xo |-> <<1, 2>>, ys |-> R(-1), yo |-> R(-2),
       h |-> R(2), lon |-> R(-75)],
      [xs |-> R(-2), xo |-> R(1), ys |-> <<1, 3>>, yo |-> R(0),
       h |-> R(3), lon |-> R(-137)] }

\* [west, south, east, north]; the second crosses the antimeridian
Extents ==
    { [west |-> R(-3), south |-> R(-1), east |-> R(2), north |-> R(4)],
      [west |-> R(5), south |-> R(-2), east |-> R(-6), north |-> R(1)] }

\* The variables of a file in the order nc.keys() yields them, each with the
\* number of dimensions of its shape.
KeyLists ==
    { << [key |-> "CMI", ndim |-> 2], [key |-> "DQF", ndim |-> 2],
         [key |-> "band_id", ndim |-> 1],
         [key |-> "goes_imager_projection", ndim |-> 0],
         [key |-> "x", ndim |-> 1], [key |-> "y", ndim |-> 1] >>,
      << [key |-> "y", ndim |-> 1], [key |-> "Rad", ndim |-> 2],
         [key |-> "cube", ndim |-> 3], [key |-> "x", ndim |-> 1],
         [key |-> "t", ndim |-> 0], [key |-> "DQF", ndim |-> 2],
         [key |-> "Mask", ndim |-> 2] >>,
      << [key |-> "x", ndim |-> 1], [key |-> "y", ndim |-> 1],
         [key |-> "profile", ndim |-> 4] >> }

Files ==
    { [ x |-> xv, y |-> yv,
        x_scale |-> p.xs, x_offset |-> p.xo,
        y_scale |-> p.ys, y_offset |-> p.yo,
        sweep_angle_axis |-> "x",
        perspective_point_height |-> p.h,
        latitude_of_projection_origin |-> R(0),
        longitude_of_projection_origin |-> p.lon,
        extent |-> e,
        keys |-> k ] :
      xv \in AxisValues, yv \in AxisValues, p \in ProjectionParams,
      e \in Extents, k \in KeyLists }

-----------------------------------------------------------------------------
(* DatasetGeometry.from_nc *)

satellite_height(f) == f.perspective_point_height

rowcount(f) == Len(f.x)

colcount(f) == Len(f.y)

\* Mutant: latitude before longitude
bbox_LatLonOrder(f) ==
    <<f.extent.south, f.extent.west, f.extent.north, f.extent.east>>

bbox(f) == <<f.extent.west, f.extent.south, f.extent.east, f.extent.north>>

GOES_ELLIPSOID == "GRS80"

crs(f) ==
    [ conversion |-> "GeostationarySatellite",
      sweep_angle_axis |-> f.sweep_angle_axis,
      satellite_height |-> satellite_height(f),
      latitude_natural_origin |-> f.latitude_of_projection_origin,
      longitude_natural_origin |-> f.longitude_of_projection_origin,
      ellipsoid |-> GOES_ELLIPSOID ]

projection_wkt2(f) == [wkt |-> crs(f)]

projection_shape(f) == <<rowcount(f), colcount(f)>>

x_bounds(f) ==
    [ i \in 1..2 |->
        LET v == IF i = 1 THEN f.x[1] ELSE f.x[Len(f.x)]
        IN  RMul(RAdd(RMul(f.x_scale, R(v)), f.x_offset), satellite_height(f)) ]

\* Mutant: the y bounds computed with the scale and offset of x
y_bounds_CopyPaste(f) ==
    [ i \in 1..2 |->
        LET v == IF i = 1 THEN f.y[1] ELSE f.y[Len(f.y)]
        IN  RMul(RAdd(RMul(f.x_scale, R(v)), f.x_offset), satellite_height(f)) ]

y_bounds(f) ==
    [ i \in 1..2 |->
        LET v == IF i = 1 THEN f.y[1] ELSE f.y[Len(f.y)]
        IN  RMul(RAdd(RMul(f.y_scale, R(v)), f.y_offset), satellite_height(f)) ]

xres(f) == RDiv(RSub(x_bounds(f)[2], x_bounds(f)[1]), R(rowcount(f) - 1))

yres(f) == RDiv(RSub(y_bounds(f)[2], y_bounds(f)[1]), R(colcount(f) - 1))

\* Mutant: the origin at the centre of the first pixel, not at its corner
projection_transform_CentreOrigin(f) ==
    << xres(f), R(0), x_bounds(f)[1],
       R(0), yres(f), y_bounds(f)[1],
       R(0), R(0), R(1) >>

projection_transform(f) ==
    << xres(f), R(0), RSub(x_bounds(f)[1], RDiv(xres(f), R(2))),
       R(0), yres(f), RSub(y_bounds(f)[1], RDiv(yres(f), R(2))),
       R(0), R(0), R(1) >>

projection_bbox(f) ==
    <<x_bounds(f)[1], y_bounds(f)[1], x_bounds(f)[2], y_bounds(f)[2]>>

\* shapely: mapping(Polygon(shell)) closes the ring
PolygonMapping(shell) ==
    [ type |-> "Polygon",
      coordinates |->
        << IF shell[1] = shell[Len(shell)] THEN shell
           ELSE Append(shell, shell[1]) >> ]

\* Mutant: the polygon built from the geographic bbox
projection_geometry_FromBbox(f) ==
    PolygonMapping(<< <<f.extent.west, f.extent.south>>,
                      <<f.extent.west, f.extent.north>>,
                      <<f.extent.east, f.extent.north>>,
                      <<f.extent.east, f.extent.south>> >>)

projection_geometry(f) ==
    PolygonMapping(<< <<x_bounds(f)[1], y_bounds(f)[1]>>,
                      <<x_bounds(f)[1], y_bounds(f)[2]>>,
                      <<x_bounds(f)[2], y_bounds(f)[2]>>,
                      <<x_bounds(f)[2], y_bounds(f)[1]>> >>)

\* shapely: box(minx, miny, maxx, maxy), counter-clockwise from (maxx, miny)
box(b) ==
    PolygonMapping(<< <<b[3], b[2]>>, <<b[3], b[4]>>,
                      <<b[1], b[4]>>, <<b[1], b[2]>> >>)

\* stactools.core.projection.reproject_geom: every point of the geometry is
\* transformed from src to dst
reproject_geom(src, dst, geom) ==
    [ type |-> geom.type,
      coordinates |->
        [ r \in DOMAIN geom.coordinates |->
            [ i \in DOMAIN geom.coordinates[r] |->
                [src |-> src, dst |-> dst, point |-> geom.coordinates[r][i]] ] ] ]

\* Mutant: the test of the image type inverted
IsFullDisk_Inverted(it) == it # "FULL_DISK"

IsFullDisk(it) == it = "FULL_DISK"

footprint(f, it) ==
    IF ~IsFullDisk(it)
    THEN reproject_geom(crs(f), "EPSG:4326", projection_geometry(f))
    ELSE box(bbox(f))

ReprojectCalls(f, it) ==
    IF ~IsFullDisk(it)
    THEN << [src |-> crs(f), dst |-> "EPSG:4326", geom |-> projection_geometry(f)] >>
    ELSE << >>

\* The exception from_nc raises, or None when it returns
GeometryError(f) ==
    IF Len(f.x) = 0 \/ Len(f.y) = 0 THEN "IndexError"
    ELSE IF rowcount(f) - 1 = 0 \/ colcount(f) - 1 = 0 THEN "ZeroDivisionError"
    ELSE "none"

DatasetGeometry_from_nc(f, it) ==
    [ projection_wkt2 |-> projection_wkt2(f),
      projection_shape |-> projection_shape(f),
      projection_transform |-> projection_transform(f),
      projection_bbox |-> projection_bbox(f),
      bbox |-> bbox(f),
      footprint |-> footprint(f, it) ]

-----------------------------------------------------------------------------
(* Dataset.from_nc *)

\* Mutant: every variable of two or more dimensions
IsImage_AtLeastTwo(v) == v.ndim >= 2

IsImage(v) == v.ndim = 2

RECURSIVE SelectKeys(_)
SelectKeys(ks) ==
    IF ks = << >> THEN << >>
    ELSE IF IsImage(Head(ks)) THEN <<Head(ks).key>> \o SelectKeys(Tail(ks))
    ELSE SelectKeys(Tail(ks))

asset_variables(f) == SelectKeys(f.keys)

GlobalAttributes_from_nc(f) == [attrs_of |-> "nc"]

-----------------------------------------------------------------------------
(* The state machine *)

Init ==
    /\ nc \in Files
    /\ file_name \in [image_type : ImageTypes]
    /\ pc = "start"
    /\ called = "none"
    /\ image_type = "none"
    /\ geometry = None
    /\ dataset = None
    /\ error = "none"
    /\ reproject_calls = << >>

\* A direct call DatasetGeometry.from_nc(nc, it)
CallDatasetGeometryFromNc(it) ==
    /\ pc = "start"
    /\ called' = "DatasetGeometry.from_nc"
    /\ image_type' = it
    /\ IF GeometryError(nc) # "none"
       THEN /\ pc' = "raised"
            /\ error' = GeometryError(nc)
            /\ UNCHANGED <<geometry, reproject_calls>>
       ELSE /\ pc' = "returned"
            /\ geometry' = DatasetGeometry_from_nc(nc, it)
            /\ reproject_calls' = reproject_calls \o ReprojectCalls(nc, it)
            /\ UNCHANGED error
    /\ UNCHANGED <<nc, file_name, dataset>>

\* Dataset.from_nc(file_name, nc)
CallDatasetFromNc ==
    /\ pc = "start"
    /\ called' = "Dataset.from_nc"
    /\ image_type' = file_name.image_type
    /\ IF GeometryError(nc) # "none"
       THEN /\ pc' = "raised"
            /\ error' = GeometryError(nc)
            /\ UNCHANGED <<geometry, dataset, reproject_calls>>
       ELSE /\ pc' = "returned"
            /\ geometry' = DatasetGeometry_from_nc(nc, file_name.image_type)
            /\ reproject_calls' =
                 reproject_calls \o ReprojectCalls(nc, file_name.image_type)
            /\ dataset' =
                 [ file_name |-> file_name,
                   global_attributes |-> GlobalAttributes_from_nc(nc),
                   geometry |-> DatasetGeometry_from_nc(nc, file_name.image_type),
                   asset_variables |-> asset_variables(nc) ]
            /\ UNCHANGED error
    /\ UNCHANGED <<nc, file_name>>

Next ==
    \/ \E it \in ImageTypes : CallDatasetGeometryFromNc(it)
    \/ CallDatasetFromNc

Spec == Init /\ [][Next]_vars

-----------------------------------------------------------------------------
(* Helpers of the properties *)

Returned == pc = "returned"

\* The affine matrix t (row-major, 9 elements) applied to the pixel (px, py)
Apply(t, px, py) ==
    << RAdd(RAdd(RMul(t[1], px), RMul(t[2], py)), t[3]),
       RAdd(RAdd(RMul(t[4], px), RMul(t[5], py)), t[6]) >>

\* The image type the call in progress was meant to use
RequestedImageType ==
    IF called = "Dataset.from_nc" THEN file_name.image_type ELSE image_type

\* The ring is closed, has four edges, each parallel to an axis, and its
\* corners are the four corners of [west, south, east, north]
IsRectangleOf(geom, e) ==
    /\ geom.type = "Polygon"
    /\ Len(geom.coordinates) = 1
    /\ LET ring == geom.coordinates[1]
       IN  /\ Len(ring) = 5
           /\ ring[1] = ring[5]
           /\ {ring[i] : i \in 1..5} =
                {<<e.west, e.south>>, <<e.west, e.north>>,
                 <<e.east, e.north>>, <<e.east, e.south>>}
           /\ \A i \in 1..4 :
                ring[i][1] = ring[i + 1][1] \/ ring[i][2] = ring[i + 1][2]

-----------------------------------------------------------------------------
(* C1: for a FULL_DISK image, the footprint from_nc returns is the          *)
(* axis-aligned rectangle of the geographic bbox [west, south, east, north] *)
(* of geospatial_lat_lon_extent, reproject_geom is never called, and        *)
(* Dataset.from_nc takes the image type from file_name.image_type.          *)
C1_FullDiskFootprintIsBbox ==
    Returned =>
      /\ (called = "Dataset.from_nc" => dataset.geometry = geometry)
      /\ RequestedImageType = "FULL_DISK" =>
           /\ IsRectangleOf(geometry.footprint, nc.extent)
           /\ reproject_calls = << >>

C1_Witness ==
    /\ Returned
    /\ called = "Dataset.from_nc"
    /\ file_name.image_type = "FULL_DISK"
    /\ dataset.geometry.footprint.coordinates[1][1] =
         <<nc.extent.east, nc.extent.south>>
    /\ ~RLe(nc.extent.west, nc.extent.east)

(* C2: for an image that is not FULL_DISK, the footprint is the closed     *)
(* polygon (x0,y0),(x0,y1),(x1,y1),(x1,y0) of projection_bbox =            *)
(* [x0, y0, x1, y1], every point reprojected from the CRS of the file to   *)
(* EPSG:4326 by the one call of reproject_geom; the geographic bbox does   *)
(* not enter it.                                                           *)
C2_FootprintIsReprojectedProjectionBox ==
    (Returned /\ RequestedImageType # "FULL_DISK") =>
      LET pb == geometry.projection_bbox
          shell == << <<pb[1], pb[2]>>, <<pb[1], pb[4]>>, <<pb[3], pb[4]>>,
                      <<pb[3], pb[2]>>, <<pb[1], pb[2]>> >>
          ring == geometry.footprint.coordinates[1]
      IN  /\ geometry.footprint.type = "Polygon"
          /\ Len(geometry.footprint.coordinates) = 1
          \* a shell whose last point already equals its first is closed as it is
          /\ Len(ring) = (IF pb[1] = pb[3] THEN 4 ELSE 5)
          /\ ring[Len(ring)].point = ring[1].point
          /\ \A i \in 1..Len(ring) :
               /\ ring[i].point = shell[i]
               /\ ring[i].dst = "EPSG:4326"
               /\ ring[i].src = geometry.projection_wkt2.wkt
               /\ ring[i].src.longitude_natural_origin =
                    nc.longitude_of_projection_origin
               /\ ring[i].src.satellite_height = nc.perspective_point_height
          /\ Len(reproject_calls) = 1
          /\ reproject_calls[1].geom.coordinates[1] = SubSeq(shell, 1, Len(ring))

C2_Witness ==
    /\ Returned
    /\ image_type = "CONUS"
    /\ Len(reproject_calls) = 1
    /\ geometry.projection_bbox[1] # geometry.projection_bbox[3]
    /\ geometry.projection_bbox[2] # geometry.projection_bbox[4]
    /\ geometry.footprint.coordinates[1][3].point # <<nc.extent.east, nc.extent.north>>

(* C3: for every image type, the bbox returned is exactly                  *)
(* [westbound longitude, southbound latitude, eastbound longitude,         *)
(* northbound latitude] of geospatial_lat_lon_extent, in that order and    *)
(* unmodified.                                                             *)
C3_BboxIsExtent ==
    Returned =>
      /\ Len(geometry.bbox) = 4
      /\ geometry.bbox[1] = nc.extent.west
      /\ geometry.bbox[2] = nc.extent.south
      /\ geometry.bbox[3] = nc.extent.east
      /\ geometry.bbox[4] = nc.extent.north

C3_Witness ==
    /\ Returned
    /\ image_type = "MESOSCALE"
    /\ geometry.bbox[1] = R(5)
    /\ geometry.bbox[3] = R(-6)

(* C4: asset_variables holds exactly the keys whose variable has a shape   *)
(* of two dimensions: each such key once, no key of 0, 1, 3 or more        *)
(* dimensions, in the order nc.keys() yields them.                         *)
C4_AssetVariablesAreImages ==
    (Returned /\ called = "Dataset.from_nc") =>
      LET av == dataset.asset_variables
          IndexOf(k) == CHOOSE i \in DOMAIN nc.keys : nc.keys[i].key = k
      IN  /\ \A i \in DOMAIN nc.keys :
               nc.keys[i].ndim = 2 =>
                 Cardinality({j \in DOMAIN av : av[j] = nc.keys[i].key}) = 1
          /\ \A j \in DOMAIN av :
               \E i \in DOMAIN nc.keys :
                 nc.keys[i].key = av[j] /\ nc.keys[i].ndim = 2
          /\ \A j1, j2 \in DOMAIN av :
               j1 < j2 => IndexOf(av[j1]) < IndexOf(av[j2])

C4_Witness ==
    /\ Returned
    /\ called = "Dataset.from_nc"
    /\ dataset.asset_variables = <<"Rad", "DQF", "Mask">>
    /\ \E i \in DOMAIN nc.keys : nc.keys[i].ndim = 3
    /\ \E i \in DOMAIN nc.keys : nc.keys[i].ndim = 0

(* C5: projection_transform is the 9-element row-major affine matrix       *)
(* [xres, 0, ox, 0, yres, oy, 0, 0, 1]; it maps the centre (0.5, 0.5) of   *)
(* the first pixel to (projection_bbox[0], projection_bbox[1]) and the     *)
(* centre (Nx - 0.5, Ny - 0.5) of the last pixel to (projection_bbox[2],   *)
(* projection_bbox[3]), Nx and Ny the lengths of the x and y axes.         *)
C5_TransformMapsPixelCentres ==
    Returned =>
      LET t == geometry.projection_transform
          pb == geometry.projection_bbox
          half == <<1, 2>>
          Nx == Len(nc.x)
          Ny == Len(nc.y)
      IN  /\ Nx >= 2 /\ Ny >= 2
          /\ Len(t) = 9
          /\ t[2] = R(0) /\ t[4] = R(0)
          /\ t[7] = R(0) /\ t[8] = R(0) /\ t[9] = R(1)
          /\ Apply(t, half, half) = <<pb[1], pb[2]>>
          /\ Apply(t, RSub(R(Nx), half), RSub(R(Ny), half)) = <<pb[3], pb[4]>>

C5_Witness ==
    /\ Returned
    /\ Len(nc.x) = 3
    /\ Len(nc.y) = 2
    /\ geometry.projection_transform[1] = <<-3, 1>>
    /\ geometry.projection_transform[5] = <<1, 1>>

(* C6: projection_shape is [number of rows, number of columns]: the length *)
(* of the y axis, then the length of the x axis.                           *)
C6_ShapeIsRowsThenColumns ==
    Returned => geometry.projection_shape = <<Len(nc.y), Len(nc.x)>>

(* C7: projection_bbox is [X(x_first), Y(y_first), X(x_last), Y(y_last)]   *)
(* with X(v) = (x_scale_factor * v + x_add_offset) * height and            *)
(* Y(v) = (y_scale_factor * v + y_add_offset) * height; the interior       *)
(* coordinates of the axes do not influence it.                            *)
C7_ProjectionBboxFromFirstAndLast ==
    Returned =>
      LET X(v) == RMul(RAdd(RMul(nc.x_scale, <<v, 1>>), nc.x_offset),
                       nc.perspective_point_height)
          Y(v) == RMul(RAdd(RMul(nc.y_scale, <<v, 1>>), nc.y_offset),
                       nc.perspective_point_height)
          SameEnds(a, b) ==
            Len(a) >= 2 /\ a[1] = b[1] /\ a[Len(a)] = b[Len(b)]
      IN  /\ geometry.projection_bbox =
               << X(nc.x[1]), Y(nc.y[1]), X(nc.x[Len(nc.x)]), Y(nc.y[Len(nc.y)]) >>
          /\ \A xv \in AxisValues :
               SameEnds(xv, nc.x) =>
                 projection_bbox([nc EXCEPT !.x = xv]) = geometry.projection_bbox
          /\ \A yv \in AxisValues :
               SameEnds(yv, nc.y) =>
                 projection_bbox([nc EXCEPT !.y = yv]) = geometry.projection_bbox

C7_Witness ==
    /\ Returned
    /\ nc.x = <<0, 1, 0>>
    /\ nc.y = <<1, 0, 0>>
    /\ nc.x_scale = <<1, 2>>
    /\ geometry.projection_bbox = <<R(-3), <<3, 2>>, R(-3), R(3)>>

(* C8: projection_bbox is ordered [min x, min y, max x, max y]:            *)
(* projection_bbox[0] <= projection_bbox[2] and projection_bbox[1] <=      *)
(* projection_bbox[3], whatever the signs of the scale factors and the     *)
(* direction of the stored coordinates.                                    *)
C8_ProjectionBboxOrdered ==
    Returned =>
      /\ RLe(geometry.projection_bbox[1], geometry.projection_bbox[3])
      /\ RLe(geometry.projection_bbox[2], geometry.projection_bbox[4])

=============================================================================
